---- MODULE Spec2Model ----
(***************************************************************************)
(* Model of psst-core/src/audio_capturer.rs: the Capturer (control thread, *)
(* one `handle` call at a time), the unbounded crossbeam event channel,    *)
(* the detached download threads spawned by Capturer::download, and the    *)
(* destination directory the threads write to.                             *)
(***************************************************************************)
EXTENDS Naturals, Sequences, FiniteSets

VARIABLES
    state,        \* Capturer.state : CapturerState
    config,       \* Capturer.config : PlaybackConfig
    chan,         \* events buffered in the unbounded channel, oldest first
    ctl,          \* position of the control thread inside handle/download
    tasks,        \* the spawned threads, in spawn order
    files,        \* destination_dir: file name -> bytes
    sent,         \* history: every event ever sent on the channel, in order
    downloads,    \* history: every Download command passed to handle
    lastCfg,      \* history: config of the last Configure passed to handle
    prevDownload, \* history: the last handle call was a Download command
    alive         \* the Capturer, and with it a Receiver of the channel, exists

vars == <<state, config, chan, ctl, tasks, files, sent, downloads, lastCfg, prevDownload,
          alive>>

\* Bound on the number of Download commands handled in one run.
MaxDownloads == 2

-----------------------------------------------------------------------------
\* Data

\* PlaybackConfig values; InitConfig is the one passed to Capturer::new.
Configs == {"cfg1", "cfg2"}
InitConfig == "cfg1"

\* CaptureItem { item_id, name, artist }.  Arc<str> is a sequence of character
\* groups.  ItemA and ItemA2 differ in all three fields and yet format to the
\* same file name; ItemB formats to another one.
ItemA  == [item_id |-> "idA",  name |-> <<"y", " - ", "z">>, artist |-> <<"x">>]
ItemA2 == [item_id |-> "idA2", name |-> <<"z">>, artist |-> <<"x", " - ", "y">>]
ItemB  == [item_id |-> "idB",  name |-> <<"z">>, artist |-> <<"w">>]
Items == {ItemA, ItemA2, ItemB}

\* format!("{} - {}.ogg", item.artist, item.name)
FileName(item) == item.artist \o <<" - ">> \o item.name \o <<".ogg">>

\* The bytes RawFileSource yields for an item (what the Item Loader resolves
\* the item_id to).
Stream(item) ==
    IF item.item_id = "idA" THEN <<1, 2>>
    ELSE IF item.item_id = "idA2" THEN <<3>>
    ELSE <<4>>

\* CapturerState
Idle == [tag |-> "Idle"]
StDownloading(item) == [tag |-> "Downloading", item |-> item]
Invalid == [tag |-> "Invalid"]

\* CapturerCommand / CapturerEvent
CmdDownload(item) == [kind |-> "Download", item |-> item]
CmdConfigure(c) == [kind |-> "Configure", config |-> c]
EvDownloading(item) == [kind |-> "Downloading", item |-> item]
EvDownloaded(item) == [kind |-> "Downloaded", item |-> item]
Commands == {CmdDownload(i) : i \in Items} \cup {CmdConfigure(c) : c \in Configs}
Events == Commands \cup {EvDownloading(i) : i \in Items} \cup {EvDownloaded(i) : i \in Items}

Ready == [pc |-> "ready"]

-----------------------------------------------------------------------------
\* Destination directory (std::fs::File, std::io::copy)

Zeros(n) == [k \in 1..n |-> 0]

\* Variant: the file is opened without truncation (existing bytes stay).
create_keep(fs, name) ==
    [n \in (DOMAIN fs) \cup {name} |-> IF n \in DOMAIN fs THEN fs[n] ELSE <<>>]

\* File::create: creates the file, or truncates it when it exists.
create(fs, name) ==
    [n \in (DOMAIN fs) \cup {name} |-> IF n = name THEN <<>> ELSE fs[n]]

\* One write of `bytes` through a descriptor whose own offset is `off`: bytes
\* at the offset are overwritten, the file grows as needed, and a gap left by
\* another descriptor's truncation reads as zeros.
write_at(fs, name, off, bytes) ==
    LET old == fs[name]
        pad == IF off > Len(old) THEN old \o Zeros(off - Len(old)) ELSE old
        new == SubSeq(pad, 1, off) \o bytes
                 \o SubSeq(pad, off + Len(bytes) + 1, Len(pad))
    IN  [fs EXCEPT ![name] = new]

-----------------------------------------------------------------------------
\* Channel

\* The Capturer keeps its own Receiver for as long as it lives, so a send
\* finds the channel connected until the Capturer is dropped.
ReceiverAlive == alive

\* Variant: a channel of capacity one, whose send waits for room.
SendReadyBounded == Len(chan) < 1

\* unbounded(): a send never waits for room or for a consumer.
SendReady == TRUE

\* History entry of a send: the event and the download attempt it belongs to.
Sent(ev, att) == [kind |-> ev.kind, item |-> ev.item, att |-> att]

-----------------------------------------------------------------------------
\* Capturer::new

Init ==
    /\ state = Idle
    /\ config = InitConfig
    /\ chan = <<>>
    /\ ctl = Ready
    /\ tasks = <<>>
    /\ files = [n \in {} |-> <<>>]
    /\ sent = <<>>
    /\ downloads = <<>>
    /\ lastCfg = InitConfig
    /\ prevDownload = FALSE
    /\ alive = TRUE

-----------------------------------------------------------------------------
\* Capturer::handle and what it dispatches to (control thread)

\* Variants: the thread is spawned before Downloading is sent; Downloading is
\* sent last.
DownloadStepsSpawnFirst == <<"spawn", "send", "set_state">>
DownloadStepsSendLast == <<"set_state", "spawn", "send">>

\* The statements of Capturer::download, in program order.
DownloadSteps == <<"send", "set_state", "spawn">>

\* Variant: the closure captures the constructor's configuration.
SpawnConfigInitial == InitConfig

\* The configuration the spawned closure captures (self.config.clone()).
SpawnConfig == config

\* The thread created by thread::spawn, about to run its closure.
\* Variant: the closure is given the item identifier only.
NewTaskIdOnly(item) ==
    [item |-> [item_id |-> item.item_id, name |-> <<>>, artist |-> <<>>],
     config |-> SpawnConfig, pc |-> "load", off |-> 0,
     loaded |-> "pending", seen |-> "none", panic |-> "none",
     att |-> Len(downloads), clobbered |-> FALSE]

NewTask(item) ==
    [item |-> item, config |-> SpawnConfig, pc |-> "load", off |-> 0,
     loaded |-> "pending", seen |-> "none", panic |-> "none",
     att |-> Len(downloads), clobbered |-> FALSE]

\* Entry of download(item): the control thread is now inside its body.
download(item) ==
    /\ ctl' = [pc |-> "download", step |-> 1, item |-> item]
    /\ downloads' = Append(downloads, [item |-> item, cfg |-> lastCfg,
                                        imm |-> prevDownload])
    /\ UNCHANGED <<state, config, tasks, files, sent, lastCfg>>

\* Variant: Configure is honoured only while Idle.
configure_when_idle(c) ==
    /\ config' = IF state = Idle THEN c ELSE config
    /\ UNCHANGED <<state, ctl, tasks, files, sent>>

configure(c) ==
    /\ config' = c
    /\ UNCHANGED <<state, ctl, tasks, files, sent>>

\* Variant: Downloaded for the tracked item returns the Capturer to Idle.
handle_downloaded_clears(item) ==
    /\ state' = IF state = StDownloading(item) THEN Idle ELSE state
    /\ UNCHANGED <<config, ctl, tasks, files, sent>>

\* Variant: a Downloaded notification makes the Capturer fetch the item again.
handle_downloaded_respawns(item) ==
    /\ tasks' = Append(tasks, NewTask(item))
    /\ UNCHANGED <<state, config, ctl, files, sent>>

handle_downloaded(item) ==
    UNCHANGED <<state, config, ctl, tasks, files, sent>>

\* Variant: the Downloading notification is taken as the start of a download.
handle_downloading_tracks(item) ==
    /\ state' = StDownloading(item)
    /\ UNCHANGED <<config, ctl, tasks, files, sent>>

\* CapturerEvent::Downloading { .. } => {}
handle_downloading(item) ==
    UNCHANGED <<state, config, ctl, tasks, files, sent>>

handle_command(cmd) ==
    IF cmd.kind = "Download"
    THEN download(cmd.item)
    ELSE /\ configure(cmd.config)
         /\ lastCfg' = cmd.config
         /\ UNCHANGED downloads

handle(event) ==
    /\ prevDownload' = (event.kind = "Download")
    /\ IF event \in Commands
       THEN handle_command(event)
       ELSE IF event.kind = "Downloaded"
       THEN handle_downloaded(event.item) /\ UNCHANGED <<downloads, lastCfg>>
       ELSE handle_downloading(event.item) /\ UNCHANGED <<downloads, lastCfg>>

\* Variant: download joins the thread it spawned, so the control thread is
\* free only once every task has ended.
HandleReadyAfterJoin == ctl = Ready /\ \A t \in 1..Len(tasks) : tasks[t].pc \in {"done", "panicked"}

\* The control thread is outside handle: download returned right after
\* thread::spawn, whose JoinHandle it drops.
HandleReady == ctl = Ready

\* handle called with an event the caller made.
Handle(e) ==
    /\ alive
    /\ HandleReady
    /\ e.kind = "Download" => Len(downloads) < MaxDownloads
    /\ handle(e)
    /\ UNCHANGED <<chan, alive>>

\* handle called with the next event received from the channel.
HandleRecv ==
    /\ alive
    /\ HandleReady
    /\ chan # <<>>
    /\ handle(Head(chan))
    /\ chan' = Tail(chan)
    /\ UNCHANGED alive

\* Another holder of event_receiver() takes the next event.
ExternalRecv ==
    /\ alive
    /\ chan # <<>>
    /\ chan' = Tail(chan)
    /\ UNCHANGED <<state, config, ctl, tasks, files, sent, downloads, lastCfg, prevDownload, alive>>

\* Control position after the current statement of download.
NextCtl ==
    IF ctl.step = Len(DownloadSteps) THEN Ready ELSE [ctl EXCEPT !.step = @ + 1]

\* event_sender.send(Downloading { item }).expect(..)
DownloadSend ==
    /\ ctl.pc = "download"
    /\ DownloadSteps[ctl.step] = "send"
    /\ SendReady
    /\ IF ReceiverAlive
       THEN /\ chan' = Append(chan, EvDownloading(ctl.item))
            /\ sent' = Append(sent, Sent(EvDownloading(ctl.item), Len(downloads)))
            /\ ctl' = NextCtl
       ELSE /\ ctl' = [pc |-> "panicked"]
            /\ UNCHANGED <<chan, sent>>
    /\ UNCHANGED <<state, config, tasks, files, downloads, lastCfg, prevDownload, alive>>

\* self.state = CapturerState::Downloading { item }
DownloadSetState ==
    /\ ctl.pc = "download"
    /\ DownloadSteps[ctl.step] = "set_state"
    /\ state' = StDownloading(ctl.item)
    /\ ctl' = NextCtl
    /\ UNCHANGED <<config, chan, tasks, files, sent, downloads, lastCfg, prevDownload, alive>>

\* thread::spawn({ clones; move || .. })
DownloadSpawn ==
    /\ ctl.pc = "download"
    /\ DownloadSteps[ctl.step] = "spawn"
    /\ tasks' = Append(tasks, NewTask(ctl.item))
    /\ ctl' = NextCtl
    /\ UNCHANGED <<state, config, chan, files, sent, downloads, lastCfg, prevDownload, alive>>

-----------------------------------------------------------------------------
\* The spawned closure (one thread per task t)

TaskIds == 1..Len(tasks)

\* Variant: the closure reads the Capturer's current configuration.
LoadConfigLive(t) == config

\* The configuration the closure passes to item.load (&config, its own clone).
LoadConfig(t) == tasks[t].config

\* Variant: the closure returns right after logging a load error.
LoadNextSkip(ok) == IF ok THEN "create" ELSE "done"

\* match load_result: Ok goes on to File::create, Err logs and falls through
\* to the send.
LoadNext(ok) == IF ok THEN "create" ELSE "send"

\* History: a task that has created its file and not yet sent Downloaded has
\* its file touched by task t (a File::create or a write on the same name).
Clobber(ts, t) ==
    [u \in DOMAIN ts |->
        IF /\ u # t
           /\ ts[u].pc \in {"copy", "send"}
           /\ FileName(ts[u].item) = FileName(ts[t].item)
        THEN [ts[u] EXCEPT !.clobbered = TRUE]
        ELSE ts[u]]

\* Variant: a panic aborts the process, ending every thread still running.
PanicAbort(ts, t, why) ==
    [u \in DOMAIN ts |->
        IF u = t THEN [ts[u] EXCEPT !.pc = "panicked", !.panic = why]
        ELSE IF ts[u].pc = "done" THEN ts[u]
        ELSE [ts[u] EXCEPT !.pc = "panicked"]]

\* unwrap / expect on an Err: the panic unwinds thread t and no other.
Panic(ts, t, why) == [ts EXCEPT ![t].pc = "panicked", ![t].panic = why]

\* Variant: the closure shares the Capturer's state and resets it as it runs.
TaskFrameSharedState == state' = Idle /\ UNCHANGED <<config, ctl>>

\* The closure owns clones of the sender, the handles, the configuration and
\* the destination, and the item: it holds no reference to the Capturer.
TaskFrame == UNCHANGED <<state, config, ctl>>

\* let load_result = item.load(&session, cdn, cache, &config);
TaskLoad(t) ==
    /\ tasks[t].pc = "load"
    /\ \E ok \in BOOLEAN :
         tasks' = [tasks EXCEPT ![t].seen = LoadConfig(t),
                                ![t].loaded = IF ok THEN "ok" ELSE "err",
                                ![t].pc = LoadNext(ok)]
    /\ TaskFrame
    /\ UNCHANGED <<chan, files, sent, downloads, lastCfg, prevDownload, alive>>

\* File::create(destination_dir.join(..)).unwrap()
TaskCreate(t) ==
    /\ tasks[t].pc = "create"
    /\ \E ok \in BOOLEAN :
         IF ok
         THEN /\ files' = create(files, FileName(tasks[t].item))
              /\ tasks' = Clobber([tasks EXCEPT ![t].pc = "copy"], t)
         ELSE /\ tasks' = Panic(tasks, t, "create")
              /\ UNCHANGED files
    /\ TaskFrame
    /\ UNCHANGED <<chan, sent, downloads, lastCfg, prevDownload, alive>>

\* io::copy(&mut loaded_item.source, &mut file).unwrap(): one byte per step,
\* then end of stream.
TaskCopy(t) ==
    /\ tasks[t].pc = "copy"
    /\ LET item == tasks[t].item
           off == tasks[t].off
       IN  IF off < Len(Stream(item))
           THEN \E ok \in BOOLEAN :
                  IF ok
                  THEN /\ files' = write_at(files, FileName(item), off,
                                            <<Stream(item)[off + 1]>>)
                       /\ tasks' = Clobber([tasks EXCEPT ![t].off = off + 1], t)
                  ELSE /\ tasks' = Panic(tasks, t, "copy")
                       /\ UNCHANGED files
           ELSE /\ tasks' = [tasks EXCEPT ![t].pc = "send"]
                /\ UNCHANGED files
    /\ TaskFrame
    /\ UNCHANGED <<chan, sent, downloads, lastCfg, prevDownload, alive>>

\* event_sender.send(Downloaded { item }).expect(..), then the thread ends.
TaskSend(t) ==
    /\ tasks[t].pc = "send"
    /\ SendReady
    /\ IF ReceiverAlive
       THEN /\ chan' = Append(chan, EvDownloaded(tasks[t].item))
            /\ sent' = Append(sent, Sent(EvDownloaded(tasks[t].item), tasks[t].att))
            /\ tasks' = [tasks EXCEPT ![t].pc = "done"]
       ELSE /\ tasks' = Panic(tasks, t, "send")
            /\ UNCHANGED <<chan, sent>>
    /\ TaskFrame
    /\ UNCHANGED <<files, downloads, lastCfg, prevDownload, alive>>

-----------------------------------------------------------------------------
Next ==
    \/ \E e \in Events : Handle(e)
    \/ HandleRecv
    \/ ExternalRecv
    \/ DownloadSend
    \/ DownloadSetState
    \/ DownloadSpawn
    \/ \E t \in TaskIds : TaskLoad(t)
    \/ \E t \in TaskIds : TaskCreate(t)
    \/ \E t \in TaskIds : TaskCopy(t)
    \/ \E t \in TaskIds : TaskSend(t)

Spec == Init /\ [][Next]_vars

\* One step of thread t, and one step of the control thread inside download.
TaskStep(t) == TaskLoad(t) \/ TaskCreate(t) \/ TaskCopy(t) \/ TaskSend(t)
DownloadStep == DownloadSend \/ DownloadSetState \/ DownloadSpawn

\* Spec with the scheduler's fairness: a thread that can take a step takes
\* one eventually.  Nothing obliges anyone to call handle or to receive.
FairSpec ==
    /\ Spec
    /\ WF_vars(DownloadStep)
    /\ \A t \in 1..MaxDownloads : WF_vars(t \in TaskIds /\ TaskStep(t))

\* Spec with fairness for the control thread alone: the spawned threads may
\* be arbitrarily slow, or never run at all.
CtlFairSpec == Spec /\ WF_vars(DownloadStep)

\* The owner drops the Capturer between two handle calls, and no other
\* Receiver is left: the channel is disconnected, the detached threads run on.
DropCapturer ==
    /\ alive
    /\ ctl = Ready
    /\ alive' = FALSE
    /\ UNCHANGED <<state, config, chan, ctl, tasks, files, sent, downloads, lastCfg,
                   prevDownload>>

NextDrop == Next \/ DropCapturer

\* The runs of Spec, and those in which the Capturer is dropped at some point.
SpecDrop == Init /\ [][NextDrop]_vars

-----------------------------------------------------------------------------
\* Vocabulary of the properties

\* Download attempts: the k-th Download command passed to handle.
Atts == 1..Len(downloads)

\* Positions in the send history of attempt k's events of one kind.
Idx(kind, k) == {n \in 1..Len(sent) : sent[n].kind = kind /\ sent[n].att = k}

Terminated(t) == tasks[t].pc \in {"done", "panicked"}

\* The control thread has returned from the handle call of attempt k.
Returned(k) == k < Len(downloads) \/ ctl = Ready

-----------------------------------------------------------------------------
\* C1: every Download command handled yields exactly one Downloading event,
\* sent before the Downloaded event of the same attempt, and, once its thread
\* has ended, exactly one Downloaded event, whatever the outcome of the load
\* and of the file write.
C1_TwoEventsPerAttempt ==
    \A k \in Atts :
        /\ Cardinality(Idx("Downloading", k)) <= 1
        /\ Cardinality(Idx("Downloaded", k)) <= 1
        /\ Returned(k) => Cardinality(Idx("Downloading", k)) = 1
        /\ \A n \in Idx("Downloaded", k) : \E m \in Idx("Downloading", k) : m < n
        /\ \A t \in TaskIds :
               tasks[t].att = k /\ Terminated(t)
                   => Cardinality(Idx("Downloaded", k)) = 1

\* C2: a task whose load returned Err never panics, can always perform its
\* send, and once it has ended it has sent exactly one Downloaded event,
\* carrying its item; the control thread does not panic either.
C2_LoadErrorStillDownloaded ==
    /\ ctl.pc # "panicked"
    /\ \A t \in TaskIds :
           tasks[t].loaded = "err" =>
               /\ tasks[t].pc \in {"send", "done"}
               /\ tasks[t].panic = "none"
               /\ tasks[t].pc = "send" => ENABLED TaskSend(t)
               /\ tasks[t].pc = "done" =>
                      /\ Cardinality(Idx("Downloaded", tasks[t].att)) = 1
                      /\ \A n \in Idx("Downloaded", tasks[t].att) :
                             sent[n].item = tasks[t].item

C2_Witness ==
    \E t \in TaskIds :
        /\ tasks[t].loaded = "err"
        /\ tasks[t].pc = "done"
        /\ Idx("Downloaded", tasks[t].att) # {}

\* C3: a task whose load succeeded and whose File::create or io::copy failed
\* still ends by sending Downloaded for its item: it never ends without it.
C3_WriteFailureStillDownloaded ==
    \A t \in TaskIds :
        tasks[t].loaded = "ok" /\ Terminated(t) =>
            /\ tasks[t].pc = "done"
            /\ \E n \in Idx("Downloaded", tasks[t].att) :
                   sent[n].item = tasks[t].item

\* C4: the state is Idle after new(); on return from handle(Download{item})
\* it is Downloading{item}; handle(Downloaded{item}) for the tracked item,
\* with every attempt's Downloaded already sent and no other event waiting,
\* makes it Idle again.
AllDownloadedSent == \A k \in Atts : Idx("Downloaded", k) # {}

C4_StateMachine ==
    /\ state = Idle
    /\ [][/\ (ctl.pc = "download" /\ ctl' = Ready)
               => state' = StDownloading(ctl.item)
          /\ (/\ HandleRecv
              /\ Head(chan).kind = "Downloaded"
              /\ state = StDownloading(Head(chan).item)
              /\ Len(chan) = 1
              /\ AllDownloadedSent)
               => state' = Idle]_vars

\* Pairs of attempts (k, k + 1) handled back to back (no other handle call in
\* between) for distinct items: Download{A} then immediately Download{B}.
BackToBack ==
    {k \in Atts : /\ k + 1 \in Atts
                  /\ downloads[k + 1].imm
                  /\ downloads[k].item # downloads[k + 1].item
                  /\ Returned(k + 1)}

\* C5: for Download{A} then immediately Download{B}, A # B, both Downloading
\* events are on the channel before either Downloaded event.
C5_BothDownloadingFirst ==
    \A k \in BackToBack :
        \A n \in Idx("Downloaded", k) \cup Idx("Downloaded", k + 1) :
            /\ \E m \in Idx("Downloading", k) : m < n
            /\ \E m \in Idx("Downloading", k + 1) : m < n

\* C5 as amended: Downloading{A} is sent before Downloading{B}, and each
\* Downloaded event after the Downloading event of its own attempt.
C5_OwnDownloadingFirst ==
    \A k \in BackToBack :
        /\ \A m \in Idx("Downloading", k) :
               \A n \in Idx("Downloading", k + 1) : m < n
        /\ Idx("Downloading", k) # {} /\ Idx("Downloading", k + 1) # {}
        /\ \A j \in {k, k + 1} :
               \A n \in Idx("Downloaded", j) :
                   \E m \in Idx("Downloading", j) : m < n

\* Downloaded{A} precedes Downloading{B} in a back-to-back pair.
C5_Witness ==
    \E k \in BackToBack :
        \E n \in Idx("Downloaded", k) :
            \E m \in Idx("Downloading", k + 1) : n < m

\* C6: a thread exists only once its attempt's Downloading event is on the
\* channel, and its Downloaded event is on the channel only when the thread
\* has ended after a failed load or after copying its whole stream.
C6_AttemptOrder ==
    /\ \A t \in TaskIds :
           /\ Cardinality(Idx("Downloading", tasks[t].att)) = 1
           /\ tasks[t].pc # "load" => tasks[t].loaded # "pending"
           /\ Idx("Downloaded", tasks[t].att) # {} =>
                  /\ tasks[t].pc = "done"
                  /\ \/ tasks[t].loaded = "err"
                     \/ /\ tasks[t].loaded = "ok"
                        /\ tasks[t].off = Len(Stream(tasks[t].item))
    /\ \A k \in Atts :
           \A n \in Idx("Downloaded", k) :
               /\ \E t \in TaskIds : tasks[t].att = k
               /\ \E m \in Idx("Downloading", k) : m < n

C6_Witness ==
    \E t \in TaskIds :
        /\ tasks[t].pc = "done"
        /\ tasks[t].loaded = "ok"
        /\ tasks[t].off = Len(Stream(tasks[t].item))
        /\ Idx("Downloaded", tasks[t].att) # {}

\* C7: the configuration a task's load observes, and the one it holds, is the
\* configuration in effect when its Download command was handled: that of the
\* last Configure handled before it, or the constructor's.
C7_ConfigAtDownload ==
    \A t \in TaskIds :
        /\ tasks[t].config = downloads[tasks[t].att].cfg
        /\ tasks[t].seen \in {"none", downloads[tasks[t].att].cfg}
        /\ tasks[t].pc # "load" => tasks[t].seen # "none"

\* Configure{cfg2} then Download: the task has observed cfg2, not cfg1.
C7_Witness ==
    \E t \in TaskIds :
        /\ tasks[t].seen = "cfg2"
        /\ downloads[tasks[t].att].cfg = "cfg2"
        /\ InitConfig # "cfg2"

\* C8: no step changes the configuration snapshot of a task that exists, a
\* handle(Configure) step changes no task at all, and what a task's load
\* observes is its snapshot, whatever Configure commands were handled since
\* the spawn.
C8_SnapshotFrame ==
    [][/\ \A t \in TaskIds :
              /\ tasks'[t].config = tasks[t].config
              /\ tasks'[t].seen # tasks[t].seen
                     => tasks'[t].seen = tasks[t].config
       /\ (\E c \in Configs : Handle(CmdConfigure(c))) => tasks' = tasks]_vars

\* A task still in flight has run its load with its snapshot although a
\* Configure handled since its spawn changed the Capturer's configuration.
C8_Witness ==
    \E t \in TaskIds :
        /\ ~Terminated(t)
        /\ tasks[t].config # config
        /\ tasks[t].seen = tasks[t].config
        /\ downloads[tasks[t].att].cfg # lastCfg

\* C9: the stored configuration is that of the last Configure handled (the
\* constructor's before any), and a handle(Configure{c}) step leaves it equal
\* to c and changes neither the state nor the channel, spawns no task and
\* sends nothing, in any state.
C9_ConfigureLastWins ==
    /\ [](config = lastCfg)
    /\ [][\A c \in Configs :
              Handle(CmdConfigure(c)) =>
                  /\ config' = c
                  /\ UNCHANGED <<state, chan, sent, tasks, files, ctl, downloads>>]_vars

\* Configure has been handled in a Downloading state with a task in flight:
\* the stored configuration differs from the constructor's and from the one
\* the task was spawned with.
C9_Witness ==
    /\ config = "cfg1"
    /\ lastCfg = "cfg1"
    /\ state.tag = "Downloading"
    /\ \E t \in TaskIds : ~Terminated(t) /\ tasks[t].config = "cfg2"

\* Task t sends its Downloaded event in this step after a successful load and
\* copy.
EmitsAfterSuccess(t) ==
    /\ tasks[t].pc = "send"
    /\ tasks[t].loaded = "ok"
    /\ tasks'[t].pc = "done"

ArtifactIsStream(t) ==
    /\ FileName(tasks[t].item) \in DOMAIN files
    /\ files[FileName(tasks[t].item)] = Stream(tasks[t].item)

\* C10: when a download whose load and write succeeded emits Downloaded, the
\* destination file holds exactly the item's stream, however the other tasks
\* are interleaved.
C10_ArtifactAtDownloaded ==
    [][\A t \in TaskIds : EmitsAfterSuccess(t) => ArtifactIsStream(t)]_vars

\* C10 as amended: the same, for a task whose file no other task created or
\* wrote between the task's File::create and its Downloaded send.
C10_ArtifactUnlessClobbered ==
    [][\A t \in TaskIds :
           EmitsAfterSuccess(t) /\ ~tasks[t].clobbered => ArtifactIsStream(t)]_vars

\* Two successful downloads to the same file name have both emitted
\* Downloaded, the later one undisturbed, and the file holds its stream.
C10_Witness ==
    \E t, u \in TaskIds :
        /\ t # u
        /\ FileName(tasks[t].item) = FileName(tasks[u].item)
        /\ tasks[t].pc = "done" /\ tasks[t].loaded = "ok" /\ ~tasks[t].clobbered
        /\ tasks[u].pc = "done" /\ tasks[u].loaded = "ok"
        /\ Stream(tasks[t].item) # Stream(tasks[u].item)
        /\ ArtifactIsStream(t)

\* A send on the event channel has failed.
SendFailed == ctl.pc = "panicked" \/ \E t \in TaskIds : tasks[t].panic = "send"

\* C11: a failed send on the event channel (Downloading by download, or
\* Downloaded by a task) leaves the Capturer in the Invalid state, Invalid is
\* reached in no other way, and once Invalid the state never changes.
C11_InvalidOnSendFailure ==
    /\ [](SendFailed => state = Invalid)
    /\ [](state = Invalid => SendFailed)
    /\ [][state = Invalid => state' = Invalid]_vars

\* C12: a task at its Downloaded send can always take it, whatever the
\* channel holds and whether or not anyone receives; every task that does not
\* panic in File::create or io::copy reaches the send and then ends.
C12_SendNeverBlocks ==
    /\ [](\A t \in TaskIds : tasks[t].pc = "send" => ENABLED TaskSend(t))
    /\ \A t \in 1..MaxDownloads :
           [](t \in TaskIds =>
                  <>(/\ t \in TaskIds
                     /\ \/ tasks[t].pc = "done"
                        \/ tasks[t].panic \in {"create", "copy"}))

\* Every task has ended after its send while nobody has received anything:
\* all the events sent are still buffered.
C12_Witness ==
    /\ Len(tasks) = MaxDownloads
    /\ \A t \in TaskIds : tasks[t].pc = "done"
    /\ chan # <<>>
    /\ Len(chan) = Len(sent)

\* An event handle can be given now (Download only below the model's bound).
Offerable(e) == e.kind = "Download" => Len(downloads) < MaxDownloads

\* C13: the control thread never waits for a task: outside handle it can
\* handle any next event whatever the tasks are doing, inside download it can
\* always take its next statement, and every handle(Download) returns even if
\* no spawned thread ever takes a step.
C13_HandleNeverWaits ==
    /\ [](ctl = Ready => \A e \in Events : Offerable(e) => ENABLED Handle(e))
    /\ [](ctl.pc = "download" => ENABLED DownloadStep)
    /\ (ctl.pc = "download") ~> (ctl = Ready)

\* A second Download and then a Configure have been handled while neither
\* task has taken a single step.
C13_Witness ==
    /\ ctl = Ready
    /\ Len(tasks) = 2
    /\ \A t \in TaskIds : tasks[t].pc = "load"
    /\ lastCfg # downloads[2].cfg

\* Task t has failed: its load returned Err, or a write failure aborted it.
Failed(t) == tasks[t].loaded = "err" \/ tasks[t].panic \in {"create", "copy"}

\* The part of a task's record that is the thread itself (not history).
Thread(t) == <<tasks[t].pc, tasks[t].off, tasks[t].loaded, tasks[t].panic>>

\* C14: the step in which a task fails changes nothing of the control thread,
\* of the Capturer or of any other thread; after a failure the control thread
\* does not panic and can still handle commands, every other live thread can
\* still take its step, and every other task ends with its Downloaded sent
\* unless a write failure of its own aborts it.
C14_FailureConfined ==
    /\ [][\A t \in TaskIds :
              ~Failed(t) /\ Failed(t)' =>
                  /\ UNCHANGED <<state, config, ctl, chan, sent>>
                  /\ \A u \in TaskIds \ {t} : Thread(u)' = Thread(u)]_vars
    /\ []((\E t \in TaskIds : Failed(t)) =>
              /\ ctl.pc # "panicked"
              /\ ctl = Ready => \A e \in Events : Offerable(e) => ENABLED Handle(e)
              /\ \A u \in TaskIds : ~Terminated(u) => ENABLED TaskStep(u))
    /\ \A u \in 1..MaxDownloads :
           [](u \in TaskIds =>
                  <>(/\ u \in TaskIds
                     /\ \/ tasks[u].panic \in {"create", "copy"}
                        \/ /\ tasks[u].pc = "done"
                           /\ Idx("Downloaded", tasks[u].att) # {}))

\* One task was aborted by a write failure, the other has gone through its
\* copy and sent its Downloaded, and the control thread is ready.
C14_Witness ==
    \E t, u \in TaskIds :
        /\ tasks[t].panic \in {"create", "copy"}
        /\ tasks[u].pc = "done" /\ tasks[u].loaded = "ok"
        /\ Idx("Downloaded", tasks[u].att) # {}
        /\ ctl = Ready

\* C15: no step of a task changes the Capturer's state or configuration (or
\* the control thread's position); they change only in steps of the control
\* thread inside handle, so a finished task shows in the Capturer at the
\* earliest when its Downloaded event is passed to handle.
C15_OnlyHandleMutates ==
    [][/\ (\E t \in TaskIds : TaskStep(t)) => UNCHANGED <<state, config, ctl>>
       /\ config' # config => \E c \in Configs : Handle(CmdConfigure(c))
       /\ state' # state => DownloadSetState]_vars

\* A task has run to its end and sent Downloaded, nothing has been received
\* yet, and the Capturer still shows what the last handle call left.
C15_Witness ==
    \E t \in TaskIds :
        /\ tasks[t].pc = "done"
        /\ Len(chan) = Len(sent)
        /\ ctl = Ready
        /\ state = StDownloading(downloads[Len(downloads)].item)
        /\ config = lastCfg

\* The state the last Download command handled before attempt k left behind.
TrackedBefore(k) == IF k = 1 THEN Idle ELSE StDownloading(downloads[k - 1].item)

\* C16: once a handle(Download) has returned, the state is Downloading with
\* the item of the most recent Download command and one thread per command
\* has been spawned, whatever the threads are doing and whatever else has
\* been handled; inside download the slot holds the previous value until the
\* assignment overwrites it.
C16_SingleSlotOverwritten ==
    LET n == Len(downloads) IN
    n > 0 =>
        IF Returned(n)
        THEN /\ state = StDownloading(downloads[n].item)
             /\ Len(tasks) = n
        ELSE /\ state \in {TrackedBefore(n), StDownloading(downloads[n].item)}
             /\ Len(tasks) = n - 1

\* Download{B} was handled while A's thread was in flight: both threads are
\* running, and the state tracks B only.
C16_Witness ==
    /\ ctl = Ready
    /\ Len(tasks) = 2
    /\ \A t \in TaskIds : ~Terminated(t)
    /\ tasks[1].item # tasks[2].item
    /\ state = StDownloading(tasks[2].item)

\* This step is handle(Downloading{item}), called directly or with the event
\* just received.
HandlesDownloading(item) ==
    \/ Handle(EvDownloading(item))
    \/ chan # <<>> /\ Head(chan) = EvDownloading(item) /\ HandleRecv

\* C17: in every state and for every item, handle(Downloading{item}) leaves
\* the state, the configuration and the control position unchanged, spawns no
\* task, writes no file and sends no event (the channel only loses the event
\* that was received).
C17_DownloadingIsObservation ==
    [][\A i \in Items :
           HandlesDownloading(i) =>
               /\ UNCHANGED <<state, config, ctl, tasks, files, sent, downloads, lastCfg>>
               /\ \/ chan' = chan
                  \/ chan # <<>> /\ chan' = Tail(chan)]_vars

\* The Downloading event of the first download has been taken from the
\* channel and a handle call other than a Download has been made since, while
\* the task is in flight and the state still tracks the item.
C17_Witness ==
    /\ Len(sent) >= 1
    /\ Len(chan) = Len(sent) - 1
    /\ sent[1].kind = "Downloading"
    /\ ~prevDownload
    /\ ctl = Ready
    /\ Len(tasks) = 1 /\ ~Terminated(1)
    /\ state = StDownloading(sent[1].item)
    /\ config = InitConfig

\* C18: two Download commands for the same item, whether or not the first
\* task has finished when the second is handled, are not deduplicated: once
\* both handle calls have returned there are two tasks, each with its own
\* Downloading event for the item, and once both threads have ended each has
\* sent its own Downloaded event for the item.
C18_NoDeduplication ==
    \A j \in Atts : \A k \in Atts :
        (j < k /\ downloads[j].item = downloads[k].item /\ Returned(k)) =>
            /\ {j, k} \subseteq TaskIds
            /\ tasks[j].att = j /\ tasks[k].att = k
            /\ \A a \in {j, k} :
                   /\ Cardinality(Idx("Downloading", a)) = 1
                   /\ \A n \in Idx("Downloading", a) : sent[n].item = downloads[a].item
                   /\ Terminated(a) =>
                          /\ Cardinality(Idx("Downloaded", a)) = 1
                          /\ \A n \in Idx("Downloaded", a) :
                                 sent[n].item = downloads[a].item

\* The part of C18 that is about deduplication only: two tasks and two
\* Downloading events, and never more than one Downloaded event per task.
C18_TwoTasksTwoDownloading ==
    \A j \in Atts : \A k \in Atts :
        (j < k /\ downloads[j].item = downloads[k].item /\ Returned(k)) =>
            /\ {j, k} \subseteq TaskIds
            /\ tasks[j].att = j /\ tasks[k].att = k
            /\ \A a \in {j, k} :
                   /\ Cardinality(Idx("Downloading", a)) = 1
                   /\ Cardinality(Idx("Downloaded", a)) <= 1
                   /\ (tasks[a].pc = "done") => Cardinality(Idx("Downloaded", a)) = 1

\* Events of one kind sent so far.
Count(kind) == Cardinality({n \in 1..Len(sent) : sent[n].kind = kind})

\* Download commands whose handle call has returned.
Handled == Cardinality({k \in Atts : Returned(k)})

\* This step is a handle call with anything but a Download command.
HandlesOther ==
    \/ \E c \in Configs : Handle(CmdConfigure(c))
    \/ \E i \in Items : Handle(EvDownloading(i)) \/ Handle(EvDownloaded(i))
    \/ HandleRecv

\* C19: at any time at most one Downloaded event per spawned task has been
\* sent; whenever the control thread is outside handle, the tasks spawned,
\* the Downloading events sent and the Download commands handled are equal in
\* number, and inside download the send and the spawn of the command being
\* handled are the only difference; handling Configure, Downloading or
\* Downloaded sends nothing, spawns nothing and starts no download, so the
\* channel never grows by feeding its output back into handle.
C19_EventAccounting ==
    /\ [](/\ Count("Downloaded") <= Len(tasks)
          /\ ctl = Ready =>
                 /\ Len(tasks) = Count("Downloading")
                 /\ Count("Downloading") = Handled
                 /\ Handled = Len(downloads)
          /\ ctl # Ready =>
                 /\ Handled = Len(downloads) - 1
                 /\ Handled <= Len(tasks)
                 /\ Len(tasks) <= Count("Downloading")
                 /\ Count("Downloading") <= Len(downloads))
    /\ [][/\ HandlesOther =>
               /\ UNCHANGED <<sent, tasks, downloads>>
               /\ ctl' = Ready
               /\ Len(chan') <= Len(chan)
          /\ sent' # sent =>
               \/ DownloadSend
               \/ \E t \in TaskIds : TaskSend(t)
          /\ tasks' # tasks /\ Len(tasks') # Len(tasks) => DownloadSpawn]_vars

\* Two Download commands have been handled, one task has sent its Downloaded
\* and the other has not, some events have been taken from the channel and
\* a handle call other than Download has been made since.
C19_Witness ==
    /\ ctl = Ready
    /\ Len(downloads) = 2
    /\ Count("Downloaded") = 1
    /\ Count("Downloading") = 2
    /\ Len(chan) < Len(sent)
    /\ ~prevDownload

\* C20: every event sent, and every event still in the channel, carries the
\* item (item_id, name and artist) of the Download command of its attempt,
\* every task works on the item of its command, the state assigned by
\* download is Downloading with the item of the command being handled, and a
\* tracked item is always the item of some Download command handled.
C20_ItemIdentity ==
    /\ [](/\ \A n \in 1..Len(sent) :
                /\ sent[n].att \in Atts
                /\ sent[n].item = downloads[sent[n].att].item
          /\ \A n \in 1..Len(chan) :
                \E m \in 1..Len(sent) :
                    /\ chan[n].kind = sent[m].kind
                    /\ chan[n].item = sent[m].item
          /\ \A t \in TaskIds :
                /\ tasks[t].att \in Atts
                /\ tasks[t].item = downloads[tasks[t].att].item
          /\ state # Idle =>
                \E k \in Atts : state = StDownloading(downloads[k].item))
    /\ [][DownloadSetState =>
              state' = StDownloading(downloads[Len(downloads)].item)]_vars

\* Two downloads of different items that format to the same file name: the
\* first task has sent Downloaded with its own item while the state tracks
\* the item of the second.
C20_Witness ==
    /\ Len(downloads) = 2
    /\ ctl = Ready
    /\ downloads[1].item # downloads[2].item
    /\ FileName(downloads[1].item) = FileName(downloads[2].item)
    /\ \E n \in Idx("Downloaded", 1) : sent[n].item = downloads[1].item
    /\ state = StDownloading(downloads[2].item)
====
